---------------------------- MODULE Spec2Model ----------------------------
(***************************************************************************)
(* plone.memoize.ram: the RAMCache-backed memoize decorator.               *)
(*                                                                         *)
(* src/plone/memoize/ram.py holds RAMCacheAdapter, choose_cache,           *)
(* store_in_ramcache and cache.  cache() hands the per-call algorithm to   *)
(* plone.memoize.volatile.cache, whose code is not part of the sources at  *)
(* hand: its steps (derive key, bypass test, select store, lookup, body,   *)
(* write) follow section 4.3 of the specification.  The zope RAMCache      *)
(* engine (query / set / invalidate / invalidateAll) is an external        *)
(* collaborator and is modelled as a map from (ob, key) to value; its own  *)
(* ageing and capacity eviction are not modelled.                          *)
(*                                                                         *)
(* Python objects are records [type, id, v] so that keys, values and the   *)
(* sentinels can be compared with each other.                              *)
(***************************************************************************)
EXTENDS Integers, Sequences, FiniteSets, TLC

VARIABLES
    ramcache,    \* store name -> (<<ob, key>> -> value): the RAMCache instances
    chooser,     \* the registered IRAMCacheChooser utility, or Unregistered
    iramcache,   \* the registered IRAMCache utility (a store name), or NoStore
    keyfn,       \* function name -> the get_key it was decorated with
    frame,       \* thread -> the locals of its call of a memoized function
    writer,      \* history: store name -> (<<ob, key>> -> function that wrote it)
    cachedBy,    \* history: <<store, stable name, key>> -> what a returned call cached
    pendingInv,  \* history: <<store, stable name>>: invalidate removed the function's
                 \* entries from the store and the function was not called since
    pendingAll,  \* history: the same for invalidateAll
    lastOp,      \* history: the invalidate or invalidateAll that has just been made,
                 \* or the miss whose body has just raised
    stale        \* history: <<store, <<ob, key>>>>: the entry holds what a body
                 \* returned before an invalidate of its namespace on that store

vars == <<ramcache, chooser, iramcache, keyfn, frame, writer, cachedBy,
          pendingInv, pendingAll, lastOp, stale>>

(***************************************************************************)
(* Bounds of the model.                                                    *)
(***************************************************************************)
MaxSecond == 3

Threads == {"t1", "t2"}
SeqThreads == {"t1"}
Stores == {"global_cache", "my_cache"}
Funs == {"pow", "add"}
FirstArg == 3
MinSecond == 2
Args == {FirstArg} \X (MinSecond..MaxSecond)
\* pow(0, -1): 0 ** -1 raises ZeroDivisionError
RaisingArgs == <<0, -1>>
ArgsOf(fun) == IF fun = "pow" THEN Args \cup {RaisingArgs} ELSE Args
KeyFns == {"cache_key", "first_key", "bypass_key", "raising_key"}
EngineErrors == {"KeyError", "IOError"}

(***************************************************************************)
(* Python values.                                                          *)
(***************************************************************************)
PyInt(n) == [type |-> "int", id |-> "", v |-> <<n>>]
PyTuple(t) == [type |-> "tuple", id |-> "", v |-> t]
PyObject(name) == [type |-> "object", id |-> name, v |-> <<>>]
None == PyObject("None")
NoStore == "None"
Unregistered == "unregistered"

Return(x) == [kind |-> "return", value |-> x, error |-> ""]
Raise(e) == [kind |-> "raise", value |-> None, error |-> e]

\* volatile.DONT_CACHE, the object volatile.cache tests the key against
volatile_DONT_CACHE == PyObject("volatile.DONT_CACHE")

\* a sentinel of ram.py's own, which volatile.cache would not recognise
DONT_CACHE_own == PyObject("ram.DONT_CACHE")

\* ram.DONT_CACHE, the object a key function returns to bypass the cache
DONT_CACHE == volatile_DONT_CACHE

\* volatile's _marker, the "missing" default of the lookup
volatile_marker == PyObject("volatile._marker")

(***************************************************************************)
(* The memoized functions of the module doctest and their key functions.   *)
(***************************************************************************)
Module == <<"plone", "memoize", "ram">>

\* '%s.%s' % (fun.__module__, fun.__name__), as the list of its dotted parts
StableName(fun) == Append(Module, fun)
Names == {StableName(f) : f \in Funs}

\* fun_name.endswith('.' + last), for a dotted name with a non-empty module
EndsWith(fun_name, last) ==
    Len(fun_name) >= 2 /\ fun_name[Len(fun_name)] = last

\* the body of pow (first ** second) and of add (first + second)
Body(fun, args) ==
    IF fun = "pow"
    THEN IF args[1] = 0 /\ args[2] < 0 THEN Raise("ZeroDivisionError")
         ELSE Return(PyInt(args[1] ^ args[2]))
    ELSE Return(PyInt(args[1] + args[2]))

\* get_key(fun, first, second): cache_key is the doctest's hash((first, second)),
\* modelled by the pair itself (the hash is injective on the arguments used);
\* first_key keys on the first argument only; bypass_key returns DONT_CACHE for
\* an odd second argument; raising_key raises for an odd second argument.
KeyFnApply(get_key, fun, args) ==
    CASE get_key = "cache_key" -> Return(PyTuple(args))
      [] get_key = "first_key" -> Return(PyInt(args[1]))
      [] get_key = "bypass_key" ->
            IF args[2] % 2 = 1 THEN Return(DONT_CACHE) ELSE Return(PyTuple(args))
      [] get_key = "raising_key" ->
            IF args[2] % 2 = 1 THEN Raise("TypeError") ELSE Return(PyTuple(args))

Keys == {KeyFnApply(g, f, a).value : g \in KeyFns, f \in Funs, a \in Args}

(***************************************************************************)
(* The RAMCache engine: one map per instance, from <<ob, key>> to value.   *)
(***************************************************************************)
EmptyMap == [x \in {} |-> None]

\* RAMCache.query(ob, key, default)
RamQuery(data, ob, key, default) ==
    IF <<ob, key>> \in DOMAIN data THEN data[<<ob, key>>] ELSE default

\* RAMCache.set(value, ob, key)
RamSet(data, value, ob, key) ==
    [x \in DOMAIN data \cup {<<ob, key>>} |->
        IF x = <<ob, key>> THEN value ELSE data[x]]

\* RAMCache.invalidate(ob)
RamInvalidate(data, ob) ==
    [x \in {y \in DOMAIN data : y[1] # ob} |-> data[x]]

\* RAMCache.invalidateAll()
RamInvalidateAll(data) == EmptyMap

(***************************************************************************)
(* RAMCacheAdapter.                                                        *)
(***************************************************************************)
\* dict(key=key)
DictKey(key) == [key |-> key]

\* __init__ that keeps the default globalkey '' whatever it is given
RAMCacheAdapter_default_globalkey(ram, globalkey) ==
    [kind |-> "RAMCacheAdapter", ramcache |-> ram, globalkey |-> <<>>,
     items |-> EmptyMap]

\* RAMCacheAdapter(ramcache, globalkey): __init__
RAMCacheAdapter(ram, globalkey) ==
    [kind |-> "RAMCacheAdapter", ramcache |-> ram, globalkey |-> globalkey,
     items |-> EmptyMap]

\* the {} store_in_ramcache returns when the chooser gives no store
EmptyDict ==
    [kind |-> "dict", ramcache |-> NoStore, globalkey |-> <<>>, items |-> EmptyMap]

\* a None returned in place of a cache object
NoneCache ==
    [kind |-> "None", ramcache |-> NoStore, globalkey |-> <<>>, items |-> EmptyMap]

\* what self.ramcache.query(self.globalkey, dict(key=key), marker) does:
\* `fault` is "" or the error the engine raises
EngineQuery(self, key, marker, data, fault) ==
    IF fault # "" THEN Raise(fault)
    ELSE Return(RamQuery(data, self.globalkey, DictKey(key), marker))

\* __getitem__ with a test that takes every value for the marker
getitem_always_missing(self, key, data, fault) ==
    LET marker == PyObject("getitem.marker")
        q == EngineQuery(self, key, marker, data, fault)
    IN  IF q.kind = "raise" THEN q ELSE Raise("KeyError")

\* __getitem__ without the test for its marker: what the engine answers is the value
getitem_no_marker_test(self, key, data, fault) ==
    EngineQuery(self, key, PyObject("getitem.marker"), data, fault)

\* __getitem__ that tests the value against None in place of its marker
getitem_none_is_missing(self, key, data, fault) ==
    LET q == EngineQuery(self, key, None, data, fault)
    IN  IF q.kind = "raise" THEN q
        ELSE IF q.value = None THEN Raise("KeyError") ELSE q

\* __getitem__ that answers the key it was asked for in place of the value
getitem_returns_key(self, key, data, fault) ==
    LET marker == PyObject("getitem.marker")
        q == EngineQuery(self, key, marker, data, fault)
    IN  IF q.kind = "raise" THEN q
        ELSE IF q.value = marker THEN Raise("KeyError") ELSE Return(key)

\* RAMCacheAdapter.__getitem__(key)
RAMCacheAdapter_getitem(self, key, data, fault) ==
    LET marker == PyObject("getitem.marker")
        q == EngineQuery(self, key, marker, data, fault)
    IN  IF q.kind = "raise" THEN q
        ELSE IF q.value = marker THEN Raise("KeyError") ELSE q

\* get that forgets its default and answers None for a missing key
get_ignores_default(self, key, default, data, fault) ==
    LET r == RAMCacheAdapter_getitem(self, key, data, fault)
    IN  IF r.kind = "raise" /\ r.error = "KeyError" THEN Return(None) ELSE r

\* get with a bare except: every error of the lookup becomes the default
get_swallow_all(self, key, default, data, fault) ==
    LET r == RAMCacheAdapter_getitem(self, key, data, fault)
    IN  IF r.kind = "raise" THEN Return(default) ELSE r

\* RAMCacheAdapter.get(key, default)
RAMCacheAdapter_get(self, key, default, data, fault) ==
    LET r == RAMCacheAdapter_getitem(self, key, data, fault)
    IN  IF r.kind = "raise" /\ r.error = "KeyError" THEN Return(default) ELSE r

\* __setitem__ that writes under the default globalkey '' in place of self.globalkey
setitem_default_namespace(self, key, value, data) ==
    RamSet(data, value, <<>>, DictKey(key))

\* __setitem__ that hands the key to the engine as the value
setitem_key_as_value(self, key, value, data) ==
    RamSet(data, key, self.globalkey, DictKey(key))

\* __setitem__ that keeps the value of an entry that exists (a setdefault)
setitem_keeps_existing(self, key, value, data) ==
    IF <<self.globalkey, DictKey(key)>> \in DOMAIN data THEN data
    ELSE RamSet(data, value, self.globalkey, DictKey(key))

\* __setitem__ that writes to the module's global_cache
setitem_global_cache(self) == "global_cache"

\* the engine __setitem__ writes to: self.ramcache
RAMCacheAdapter_setitem_ramcache(self) == self.ramcache

\* RAMCacheAdapter.__setitem__(key, value): the engine's data afterwards
RAMCacheAdapter_setitem(self, key, value, data) ==
    RamSet(data, value, self.globalkey, DictKey(key))

(***************************************************************************)
(* Store selection.                                                        *)
(***************************************************************************)
\* a chooser that answers with a store of its own for pow
choose_cache_by_name(fun_name, registered) ==
    IF EndsWith(fun_name, "pow") THEN "my_cache" ELSE registered

\* choose_cache(fun_name): component.queryUtility(IRAMCache)
choose_cache(fun_name, registered) == registered

\* the doctest's my_choose_cache(fun_name)
my_choose_cache(fun_name) ==
    IF EndsWith(fun_name, "pow") THEN "my_cache" ELSE "global_cache"

Choosers == {"choose_cache", "my_choose_cache"}

CallChooser(c, fun_name, registered) ==
    IF c = "choose_cache" THEN choose_cache(fun_name, registered)
    ELSE my_choose_cache(fun_name)

\* store_in_ramcache that always adapts global_cache, whatever is registered
store_in_ramcache_fixed(fun, c, registered) ==
    [kind |-> "return", error |-> "", chooserCalls |-> 0,
     cache |-> RAMCacheAdapter("global_cache", StableName(fun))]

\* store_in_ramcache that leaves the adapter's globalkey at its default ''
store_in_ramcache_no_globalkey(fun, c, registered) ==
    LET key == StableName(fun) IN
    IF c = Unregistered
    THEN [kind |-> "raise", error |-> "ComponentLookupError", chooserCalls |-> 0,
          cache |-> NoneCache]
    ELSE LET cache == CallChooser(c, key, registered) IN
         [kind |-> "return", error |-> "", chooserCalls |-> 1,
          cache |-> IF cache = NoStore THEN EmptyDict
                    ELSE RAMCacheAdapter(cache, <<>>)]

\* store_in_ramcache that names every adapter after pow
store_in_ramcache_one_name(fun, c, registered) ==
    LET key == StableName("pow") IN
    IF c = Unregistered
    THEN [kind |-> "raise", error |-> "ComponentLookupError", chooserCalls |-> 0,
          cache |-> NoneCache]
    ELSE LET cache == CallChooser(c, StableName(fun), registered) IN
         [kind |-> "return", error |-> "", chooserCalls |-> 1,
          cache |-> IF cache = NoStore THEN EmptyDict
                    ELSE RAMCacheAdapter(cache, key)]

\* store_in_ramcache without the test for None
store_in_ramcache_no_none_test(fun, c, registered) ==
    LET key == StableName(fun) IN
    IF c = Unregistered
    THEN [kind |-> "raise", error |-> "ComponentLookupError", chooserCalls |-> 0,
          cache |-> NoneCache]
    ELSE LET cache == CallChooser(c, key, registered) IN
         [kind |-> "return", error |-> "", chooserCalls |-> 1,
          cache |-> IF cache = NoStore THEN NoneCache
                    ELSE RAMCacheAdapter(cache, key)]

\* store_in_ramcache(fun, ...): component.getUtility raises when no chooser is
\* registered; chooserCalls counts the calls of the chooser
store_in_ramcache(fun, c, registered) ==
    LET key == StableName(fun) IN
    IF c = Unregistered
    THEN [kind |-> "raise", error |-> "ComponentLookupError", chooserCalls |-> 0,
          cache |-> NoneCache]
    ELSE LET cache == CallChooser(c, key, registered) IN
         [kind |-> "return", error |-> "", chooserCalls |-> 1,
          cache |-> IF cache = NoStore THEN EmptyDict
                    ELSE RAMCacheAdapter(cache, key)]

\* cache(get_key) that decorates with the doctest's cache_key whatever it is given
cache_default_key(get_key) ==
    [get_key |-> "cache_key", get_cache |-> "store_in_ramcache"]

\* cache(get_key): volatile.cache(get_key, get_cache=store_in_ramcache)
cache(get_key) ==
    [get_key |-> get_key, get_cache |-> "store_in_ramcache"]

(***************************************************************************)
(* The call of a memoized function: the locals of volatile.cache's         *)
(* replacement, and what the call has done so far.                  *)
(***************************************************************************)
NoOp == [op |-> "", store |-> "", name |-> <<>>]

IdleFrame ==
    [pc |-> "idle", fun |-> "", args |-> <<0, 0>>, key |-> None,
     cache |-> NoneCache, cached_value |-> None, outcome |-> Return(None),
     bodyRuns |-> 0, chooserCalls |-> 0, selected |-> "unset",
     reads |-> {}, writes |-> {}, engineErrors |-> {},
     hitWriter |-> PyObject(""), before |-> [s \in Stores |-> EmptyMap],
     prior |-> EmptyMap, afterInv |-> {}, afterAll |-> {}, afterOp |-> NoOp,
     rerouted |-> FALSE, invalidated |-> FALSE, default |-> None]

Quiet == \A t \in Threads : frame[t].pc = "idle"

\* <<store, name, key>> in `hist`, with what a call that has just returned `value`
\* for `key` from store `s` has cached
Cached(hist, s, name, key, value) ==
    LET x == <<s, name, key>>
    IN  [y \in DOMAIN hist \cup {x} |-> IF y = x THEN value ELSE hist[y]]

Init ==
    /\ ramcache = [s \in Stores |-> EmptyMap]
    /\ writer = [s \in Stores |-> EmptyMap]
    /\ chooser = "choose_cache"
    /\ iramcache = "global_cache"
    \* add is decorated with the doctest's cache_key, pow with any key function
    /\ keyfn \in {k \in [Funs -> KeyFns] : k["add"] = "cache_key"}
    /\ frame = [t \in Threads |-> IdleFrame]
    /\ cachedBy = EmptyMap
    /\ pendingInv = {}
    /\ pendingAll = {}
    /\ lastOp = NoOp
    /\ stale = {}

\* a caller calls the memoized fun(first, second).
\* step 1 and 2: key = get_key(fun, args); the bypass test
Call(t, fun, args) ==
    LET k == KeyFnApply(cache(keyfn[fun]).get_key, fun, args)
        f == [IdleFrame EXCEPT !.fun = fun, !.args = args,
                !.before = ramcache, !.prior = cachedBy, !.afterOp = lastOp,
                !.afterInv = {s \in Stores : <<s, StableName(fun)>> \in pendingInv},
                !.afterAll = {s \in Stores : <<s, StableName(fun)>> \in pendingAll}]
    IN  /\ frame[t].pc = "idle"
        /\ frame' = [frame EXCEPT ![t] =
              IF k.kind = "raise"
              THEN [f EXCEPT !.pc = "done", !.outcome = k]
              ELSE IF k.value = volatile_DONT_CACHE
              THEN [f EXCEPT !.pc = "bypass", !.key = k.value]
              ELSE [f EXCEPT !.pc = "get_cache", !.key = k.value]]
        /\ pendingInv' = {x \in pendingInv : x[2] # StableName(fun)}
        /\ pendingAll' = {x \in pendingAll : x[2] # StableName(fun)}
        /\ lastOp' = NoOp
        /\ UNCHANGED <<ramcache, chooser, iramcache, keyfn, writer, cachedBy, stale>>

\* step 2: return fun(args), skipping the cache
Bypass(t) ==
    LET f == frame[t] IN
    /\ f.pc = "bypass"
    /\ frame' = [frame EXCEPT ![t] =
          [f EXCEPT !.pc = "done", !.outcome = Body(f.fun, f.args),
                    !.bodyRuns = @ + 1]]
    /\ UNCHANGED <<ramcache, chooser, iramcache, keyfn, writer, cachedBy,
                   pendingInv, pendingAll, lastOp, stale>>

\* step 3 and 4: cache = get_cache(fun, args), which is store_in_ramcache
GetCache(t) ==
    LET f == frame[t]
        r == store_in_ramcache(f.fun, chooser, iramcache)
    IN  /\ f.pc = "get_cache"
        /\ frame' = [frame EXCEPT ![t] =
              IF r.kind = "raise"
              THEN [f EXCEPT !.pc = "done", !.outcome = Raise(r.error),
                             !.chooserCalls = @ + r.chooserCalls]
              ELSE [f EXCEPT !.pc = "lookup", !.cache = r.cache,
                             !.selected = r.cache.ramcache,
                             !.chooserCalls = @ + r.chooserCalls]]
        /\ UNCHANGED <<ramcache, chooser, iramcache, keyfn, writer, cachedBy,
                       pendingInv, pendingAll, lastOp, stale>>

\* cache.get(key, _marker) on what get_cache returned
CacheGet(c, key, default, data, fault) ==
    CASE c.kind = "RAMCacheAdapter" ->
            RAMCacheAdapter_get(c, key, default, data[c.ramcache], fault)
      [] c.kind = "dict" ->
            Return(IF key \in DOMAIN c.items THEN c.items[key] ELSE default)
      [] OTHER -> Raise("AttributeError")

\* step 5: cached_value = cache.get(key, _marker); a hit returns it
LookupWith(t, fault) ==
    LET f == frame[t]
        r == CacheGet(f.cache, f.key, volatile_marker, ramcache, fault)
        w == CacheGet(f.cache, f.key, PyObject(""), writer, "")
        s == f.cache.ramcache
        g == [f EXCEPT
                !.reads = IF f.cache.kind = "RAMCacheAdapter" THEN @ \cup {s} ELSE @,
                !.engineErrors = IF fault # "" THEN @ \cup {<<"query", fault>>} ELSE @]
    IN  /\ f.pc = "lookup"
        /\ fault # "" => f.cache.kind = "RAMCacheAdapter"
        /\ frame' = [frame EXCEPT ![t] =
              IF r.kind = "raise"
              THEN [g EXCEPT !.pc = "done", !.outcome = r]
              ELSE IF r.value = volatile_marker
              THEN [g EXCEPT !.pc = "body"]
              ELSE [g EXCEPT !.pc = "done", !.cached_value = r.value,
                             !.outcome = r, !.hitWriter = w.value]]
        /\ cachedBy' =
              IF r.kind = "return" /\ r.value # volatile_marker
                 /\ f.cache.kind = "RAMCacheAdapter"
              THEN Cached(cachedBy, s, StableName(f.fun), f.key, r.value)
              ELSE cachedBy
        /\ UNCHANGED <<ramcache, chooser, iramcache, keyfn, writer,
                       pendingInv, pendingAll, lastOp, stale>>

Lookup(t) == LookupWith(t, "")

\* step 6, first half: the miss invokes fun(args)
ExecBody(t) ==
    LET f == frame[t]
        r == Body(f.fun, f.args)
    IN  /\ f.pc = "body"
        /\ frame' = [frame EXCEPT ![t] =
              IF r.kind = "raise"
              THEN [f EXCEPT !.pc = "done", !.outcome = r, !.bodyRuns = @ + 1]
              ELSE [f EXCEPT !.pc = "setitem", !.cached_value = r.value,
                             !.bodyRuns = @ + 1]]
        /\ lastOp' = IF r.kind = "raise"
                     THEN [op |-> "raised", store |-> f.selected,
                           name |-> StableName(f.fun)]
                     ELSE lastOp
        /\ UNCHANGED <<ramcache, chooser, iramcache, keyfn, writer, cachedBy,
                       pendingInv, pendingAll, stale>>

\* step 6, second half: cache[key] = cached_value; return cached_value
SetItemWith(t, fault) ==
    LET f == frame[t]
        c == f.cache
        s == RAMCacheAdapter_setitem_ramcache(c)
        x == <<s, <<c.globalkey, DictKey(f.key)>>>>
        now == store_in_ramcache(f.fun, chooser, iramcache)
        g == [f EXCEPT !.pc = "done",
                !.rerouted = now.kind = "raise" \/ now.cache.ramcache # f.selected]
    IN  /\ f.pc = "setitem"
        /\ fault # "" => c.kind = "RAMCacheAdapter"
        /\ CASE c.kind = "RAMCacheAdapter" /\ fault = "" ->
                  /\ ramcache' = [ramcache EXCEPT ![s] =
                        RAMCacheAdapter_setitem(c, f.key, f.cached_value, @)]
                  /\ writer' = [writer EXCEPT ![s] =
                        RAMCacheAdapter_setitem(c, f.key, PyObject(f.fun), @)]
                  /\ frame' = [frame EXCEPT ![t] =
                        [g EXCEPT !.outcome = Return(f.cached_value),
                                  !.writes = @ \cup {s}]]
                  /\ cachedBy' = Cached(cachedBy, s, StableName(f.fun), f.key,
                                        f.cached_value)
                  /\ stale' = IF f.invalidated THEN stale \cup {x} ELSE stale \ {x}
                  /\ lastOp' = NoOp
             [] c.kind = "RAMCacheAdapter" /\ fault # "" ->
                  /\ frame' = [frame EXCEPT ![t] =
                        [g EXCEPT !.outcome = Raise(fault),
                                  !.engineErrors = @ \cup {<<"set", fault>>}]]
                  /\ UNCHANGED <<ramcache, writer, cachedBy, stale, lastOp>>
             [] c.kind = "dict" ->
                  /\ frame' = [frame EXCEPT ![t] =
                        [g EXCEPT !.outcome = Return(f.cached_value),
                                  !.cache.items = (f.key :> f.cached_value) @@ @]]
                  /\ UNCHANGED <<ramcache, writer, cachedBy, stale, lastOp>>
             [] OTHER ->
                  /\ frame' = [frame EXCEPT ![t] =
                        [g EXCEPT !.outcome = Raise("TypeError")]]
                  /\ UNCHANGED <<ramcache, writer, cachedBy, stale, lastOp>>
        /\ UNCHANGED <<chooser, iramcache, keyfn, pendingInv, pendingAll>>

SetItem(t) == SetItemWith(t, "")

\* the caller has the value, or the error, and the locals are gone
ReturnToCaller(t) ==
    /\ frame[t].pc = "done"
    /\ frame' = [frame EXCEPT ![t] = IdleFrame]
    /\ UNCHANGED <<ramcache, chooser, iramcache, keyfn, writer, cachedBy,
                   pendingInv, pendingAll, lastOp, stale>>

\* the engine raises inside ramcache.query
LookupFault(t) == \E e \in EngineErrors : LookupWith(t, e)

\* the engine raises inside ramcache.set
SetItemFault(t) == \E e \in EngineErrors : SetItemWith(t, e)

(***************************************************************************)
(* What the embedding application does between calls.                      *)
(***************************************************************************)
\* the calls of the function `name` that returned through store s and were not
\* invalidated since
CachedCalls(s, name) == {x \in DOMAIN cachedBy : x[1] = s /\ x[2] = name}

\* store.invalidate(name), as in global_cache.invalidate('plone.memoize.ram.pow')
Invalidate(s, name) ==
    /\ ramcache' = [ramcache EXCEPT ![s] = RamInvalidate(@, name)]
    /\ writer' = [writer EXCEPT ![s] = RamInvalidate(@, name)]
    /\ cachedBy' =
          [x \in {y \in DOMAIN cachedBy : ~(y[1] = s /\ y[2] = name)} |-> cachedBy[x]]
    /\ lastOp' = [op |-> "invalidate", store |-> s, name |-> name]
    /\ pendingInv' = pendingInv \cup {<<s, name>> : x \in CachedCalls(s, name)}
    /\ stale' = {x \in stale : ~(x[1] = s /\ x[2][1] = name)}
    \* a call that has its body's result and has not written it yet
    /\ frame' = [t \in Threads |->
          IF frame[t].pc = "setitem" /\ frame[t].selected = s
             /\ StableName(frame[t].fun) = name
          THEN [frame[t] EXCEPT !.invalidated = TRUE] ELSE frame[t]]
    /\ UNCHANGED <<chooser, iramcache, keyfn, pendingAll>>

\* store.invalidateAll(), as in global_cache.invalidateAll()
InvalidateAll(s) ==
    /\ ramcache' = [ramcache EXCEPT ![s] = RamInvalidateAll(@)]
    /\ writer' = [writer EXCEPT ![s] = RamInvalidateAll(@)]
    /\ cachedBy' = [x \in {y \in DOMAIN cachedBy : y[1] # s} |-> cachedBy[x]]
    /\ pendingAll' = pendingAll \cup
          {<<s, n>> : n \in {m \in Names : CachedCalls(s, m) # {}}}
    /\ lastOp' = [op |-> "invalidateAll", store |-> s, name |-> <<>>]
    /\ stale' = {x \in stale : x[1] # s}
    /\ UNCHANGED <<chooser, iramcache, keyfn, frame, pendingInv>>

\* sm.unregisterUtility(choose_cache)
UnregisterChooser ==
    /\ chooser # Unregistered
    /\ chooser' = Unregistered
    /\ lastOp' = NoOp
    /\ UNCHANGED <<ramcache, iramcache, keyfn, frame, writer, cachedBy,
                   pendingInv, pendingAll, stale>>

\* sm.registerUtility(my_choose_cache), or the default chooser again
RegisterChooser(c) ==
    /\ chooser # c
    /\ chooser' = c
    /\ lastOp' = NoOp
    /\ UNCHANGED <<ramcache, iramcache, keyfn, frame, writer, cachedBy,
                   pendingInv, pendingAll, stale>>

\* the IRAMCache utility that choose_cache queries is registered or removed
SetRAMCacheUtility(s) ==
    /\ iramcache # s
    /\ iramcache' = s
    /\ lastOp' = NoOp
    /\ UNCHANGED <<ramcache, chooser, keyfn, frame, writer, cachedBy,
                   pendingInv, pendingAll, stale>>

Step(t) ==
    \/ Bypass(t)
    \/ GetCache(t)
    \/ Lookup(t)
    \/ ExecBody(t)
    \/ SetItem(t)
    \/ ReturnToCaller(t)

(***************************************************************************)
(* Spec: one caller, calls and configuration changes one after another,    *)
(* over an engine that does not fail.                                      *)
(***************************************************************************)
Next ==
    \/ \E t \in SeqThreads, f \in Funs : \E a \in ArgsOf(f) : Call(t, f, a)
    \/ \E t \in SeqThreads : Step(t)
    \/ \E s \in Stores, f \in Funs : Quiet /\ Invalidate(s, StableName(f))
    \/ \E s \in Stores : Quiet /\ InvalidateAll(s)
    \/ Quiet /\ UnregisterChooser
    \/ \E c \in Choosers : Quiet /\ RegisterChooser(c)
    \/ \E s \in {NoStore, "global_cache"} : Quiet /\ SetRAMCacheUtility(s)

Spec == Init /\ [][Next]_vars

(***************************************************************************)
(* FaultSpec: the same, over an engine whose query and set may raise.      *)
(***************************************************************************)
FaultNext ==
    \/ Next
    \/ \E t \in SeqThreads : LookupFault(t)
    \/ \E t \in SeqThreads : SetItemFault(t)

\* pow is decorated with the doctest's cache_key or with bypass_key
FaultInit == Init /\ keyfn["pow"] \in {"cache_key", "bypass_key"}

FaultSpec == FaultInit /\ [][FaultNext]_vars

(***************************************************************************)
(* ConcSpec: the steps of a caller's calls of pow interleave with the      *)
(* invalidate calls and the chooser registrations that other threads make; *)
(* nothing in ram.py takes a lock.                                         *)
(***************************************************************************)
ConcFuns == {"pow"}

ConcNext ==
    \/ \E t \in SeqThreads, f \in ConcFuns, a \in Args : Call(t, f, a)
    \/ \E t \in SeqThreads : Step(t)
    \/ \E s \in Stores, f \in ConcFuns : Invalidate(s, StableName(f))
    \/ \E c \in Choosers : RegisterChooser(c)

ConcSpec == FaultInit /\ [][ConcNext]_vars

(***************************************************************************)
(* AdapterSpec: a caller uses a RAMCacheAdapter over global_cache as the    *)
(* mapping it is: d = RAMCacheAdapter(global_cache, globalkey), then        *)
(* d[key] = value, d[key] and d.get(key, default), with invalidate between. *)
(* The frame holds the adapter, the arguments and the outcome of the call.  *)
(***************************************************************************)
AdapterStore == "global_cache"
AdapterKeys == {PyTuple(a) : a \in Args}
AdapterValues == {None, PyInt(FirstArg)}
AdapterDefaults == {None, volatile_marker}

\* d[key] = value
AdapterSetItem(t, name, key, value) ==
    LET d == RAMCacheAdapter(AdapterStore, name)
        s == RAMCacheAdapter_setitem_ramcache(d)
    IN  /\ frame[t].pc = "idle"
        /\ ramcache' = [ramcache EXCEPT ![s] = RAMCacheAdapter_setitem(d, key, value, @)]
        /\ writer' = [writer EXCEPT ![s] = RAMCacheAdapter_setitem(d, key, PyObject(""), @)]
        /\ frame' = [frame EXCEPT ![t] =
              [IdleFrame EXCEPT !.pc = "done", !.fun = "__setitem__", !.cache = d,
                                !.key = key, !.cached_value = value,
                                !.before = ramcache, !.outcome = Return(None)]]
        /\ lastOp' = NoOp
        /\ UNCHANGED <<chooser, iramcache, keyfn, cachedBy, pendingInv, pendingAll,
                       stale>>

\* d[key]
AdapterGetItem(t, name, key) ==
    LET d == RAMCacheAdapter(AdapterStore, name)
    IN  /\ frame[t].pc = "idle"
        /\ frame' = [frame EXCEPT ![t] =
              [IdleFrame EXCEPT !.pc = "done", !.fun = "__getitem__", !.cache = d,
                                !.key = key, !.before = ramcache,
                                !.outcome = RAMCacheAdapter_getitem(
                                               d, key, ramcache[d.ramcache], "")]]
        /\ lastOp' = NoOp
        /\ UNCHANGED <<ramcache, chooser, iramcache, keyfn, writer, cachedBy,
                       pendingInv, pendingAll, stale>>

\* d.get(key, default)
AdapterGet(t, name, key, default) ==
    LET d == RAMCacheAdapter(AdapterStore, name)
    IN  /\ frame[t].pc = "idle"
        /\ frame' = [frame EXCEPT ![t] =
              [IdleFrame EXCEPT !.pc = "done", !.fun = "get", !.cache = d,
                                !.key = key, !.default = default,
                                !.before = ramcache,
                                !.outcome = RAMCacheAdapter_get(
                                               d, key, default, ramcache[d.ramcache], "")]]
        /\ lastOp' = NoOp
        /\ UNCHANGED <<ramcache, chooser, iramcache, keyfn, writer, cachedBy,
                       pendingInv, pendingAll, stale>>

AdapterNext ==
    \/ \E t \in SeqThreads, n \in Names, k \in AdapterKeys, v \in AdapterValues :
          AdapterSetItem(t, n, k, v)
    \/ \E t \in SeqThreads, n \in Names, k \in AdapterKeys : AdapterGetItem(t, n, k)
    \/ \E t \in SeqThreads, n \in Names, k \in AdapterKeys, d \in AdapterDefaults :
          AdapterGet(t, n, k, d)
    \/ \E t \in SeqThreads : ReturnToCaller(t)
    \/ \E n \in Names : Quiet /\ Invalidate(AdapterStore, n)

AdapterSpec == Init /\ [][AdapterNext]_vars

(***************************************************************************)
(* Properties.                                                             *)
(***************************************************************************)
\* the call of thread t has ended: its outcome is about to reach the caller
Done(t) == frame[t].pc = "done"

\* what the key function the function was decorated with answers for the call
KeyOf(f) == KeyFnApply(keyfn[f.fun], f.fun, f.args)

\* the history entry of the call: its store, its function's name, its key
EntryOf(f) == <<f.selected, StableName(f.fun), f.key>>

\* C1: when an earlier call of the function returned through the same store with
\* the same key and nothing was invalidated since, the call does not run the
\* body and returns what that earlier call returned.
C1_SecondCallIsHit ==
    \A t \in Threads :
        LET f == frame[t] IN
        (Done(t) /\ f.selected \in Stores /\ EntryOf(f) \in DOMAIN f.prior)
            => /\ f.bodyRuns = 0
               /\ f.outcome = Return(f.prior[EntryOf(f)])

C1_Witness ==
    \E t \in Threads :
        LET f == frame[t] IN
        /\ Done(t) /\ f.fun = "pow" /\ f.args = <<3, 2>>
        /\ f.selected = "global_cache" /\ EntryOf(f) \in DOMAIN f.prior
        /\ f.bodyRuns = 0 /\ f.outcome = Return(PyInt(9))

\* C2 as stated: after global_cache.invalidate(name) has removed cached calls of
\* the function, its next call that returns has run the body and returns the
\* body's result.
C2_Original ==
    \A t \in Threads :
        LET f == frame[t] IN
        (Done(t) /\ "global_cache" \in f.afterInv /\ f.outcome.kind = "return")
            => /\ f.bodyRuns = 1
               /\ f.outcome = Body(f.fun, f.args)

\* C2 amended: after store.invalidate(name) has removed cached calls of the
\* function, its next call, when the chooser selects that store for it, runs the
\* body and returns the body's result.
C2_NextCallOnThatStoreRunsBody ==
    \A t \in Threads :
        LET f == frame[t] IN
        (Done(t) /\ f.selected \in f.afterInv)
            => /\ f.bodyRuns = 1
               /\ f.outcome = Body(f.fun, f.args)

C2_Witness ==
    \E t \in Threads :
        LET f == frame[t] IN
        /\ Done(t) /\ f.fun = "pow" /\ f.args = <<3, 2>>
        /\ f.selected = "global_cache" /\ "global_cache" \in f.afterInv
        /\ f.bodyRuns = 1 /\ f.outcome = Return(PyInt(9))

\* C3: right after invalidate(name) on a store, every cached call of another
\* function on that store still has its entry there, with its value; and a call
\* of another function that follows the invalidate, goes to that store and
\* repeats a cached call is a hit that does not run the body.
C3_OtherNamespaceUntouched ==
    /\ lastOp.op = "invalidate" =>
          \A x \in DOMAIN cachedBy :
              x[1] = lastOp.store =>
                  /\ x[2] # lastOp.name
                  /\ <<x[2], DictKey(x[3])>> \in DOMAIN ramcache[x[1]]
                  /\ ramcache[x[1]][<<x[2], DictKey(x[3])>>] = cachedBy[x]
    /\ \A t \in Threads :
          LET f == frame[t] IN
          (/\ Done(t) /\ f.afterOp.op = "invalidate"
           /\ f.afterOp.name # StableName(f.fun)
           /\ f.selected = f.afterOp.store
           /\ EntryOf(f) \in DOMAIN f.prior)
              => /\ f.bodyRuns = 0
                 /\ f.outcome = Return(f.prior[EntryOf(f)])

C3_Witness ==
    \E t \in Threads :
        LET f == frame[t] IN
        /\ Done(t) /\ f.fun = "add" /\ f.args = <<3, 2>>
        /\ f.selected = "global_cache"
        /\ f.afterOp = [op |-> "invalidate", store |-> "global_cache",
                        name |-> StableName("pow")]
        /\ <<"global_cache", StableName("pow")>> \in pendingInv
        /\ EntryOf(f) \in DOMAIN f.prior
        /\ f.bodyRuns = 0 /\ f.outcome = Return(PyInt(5))

\* C4 as stated: a store holds no entries right after invalidateAll(), and the
\* next call of each function whose cached calls it removed, when it returns,
\* has run the body.
C4_Original ==
    /\ lastOp.op = "invalidateAll" => DOMAIN ramcache[lastOp.store] = {}
    /\ \A t \in Threads :
          LET f == frame[t] IN
          (Done(t) /\ f.afterAll # {} /\ f.outcome.kind = "return")
              => f.bodyRuns = 1

\* C4 amended: a store holds no entries right after invalidateAll(), and the
\* next call of each function whose cached calls it removed, when the chooser
\* selects that store for it, runs the body and returns the body's result.
C4_InvalidateAllEmptiesStore ==
    /\ lastOp.op = "invalidateAll" => DOMAIN ramcache[lastOp.store] = {}
    /\ \A t \in Threads :
          LET f == frame[t] IN
          (Done(t) /\ f.selected \in f.afterAll)
              => /\ f.bodyRuns = 1
                 /\ f.outcome = Body(f.fun, f.args)

C4_Witness ==
    \E t \in Threads :
        LET f == frame[t] IN
        /\ Done(t) /\ f.fun = "add" /\ f.args = <<3, 2>>
        /\ f.selected = "global_cache" /\ "global_cache" \in f.afterAll
        /\ <<"global_cache", StableName("pow")>> \in pendingAll
        /\ f.bodyRuns = 1 /\ f.outcome = Return(PyInt(5))

\* C5: a call whose key function returns DONT_CACHE runs the body, returns its
\* result, consults no chooser, reads and writes no store and leaves every store
\* as it was; and no entry of any store is held under the key DONT_CACHE.
C5_BypassNeverCaches ==
    /\ \A t \in Threads :
          LET f == frame[t] IN
          (Done(t) /\ KeyOf(f) = Return(DONT_CACHE))
              => /\ f.bodyRuns = 1
                 /\ f.outcome = Body(f.fun, f.args)
                 /\ f.chooserCalls = 0
                 /\ f.reads = {} /\ f.writes = {}
                 /\ ramcache = f.before
    /\ \A s \in Stores : \A x \in DOMAIN ramcache[s] : x[2] # DictKey(DONT_CACHE)

C5_Witness ==
    \E t \in Threads :
        LET f == frame[t] IN
        /\ Done(t) /\ f.fun = "pow" /\ f.args = <<3, 3>>
        /\ KeyOf(f) = Return(DONT_CACHE)
        /\ f.bodyRuns = 1 /\ f.outcome = Return(PyInt(27))
        /\ DOMAIN ramcache["global_cache"] # {}

\* C6: once the store of a call is selected, the call has asked the registered
\* chooser once and the store is the one that chooser answers now for the
\* function's name; the call reads and writes no other
\* store, every other store stays as it was when the call began, and a call
\* whose selected store held no entry for its key runs the body, whatever the
\* other stores hold.
C6_StoreSelectedPerCall ==
    \A t \in Threads :
        LET f == frame[t] IN
        f.selected # "unset"
            => /\ f.chooserCalls = 1
               /\ f.selected = CallChooser(chooser, StableName(f.fun), iramcache)
               /\ f.reads \cup f.writes \subseteq {f.selected}
               /\ \A s \in Stores \ {f.selected} : ramcache[s] = f.before[s]
               /\ (/\ Done(t) /\ f.selected \in Stores
                   /\ <<StableName(f.fun), DictKey(f.key)>>
                          \notin DOMAIN f.before[f.selected])
                     => /\ f.bodyRuns = 1
                        /\ f.outcome.kind = "return" => f.writes = {f.selected}

C6_Witness ==
    \E t \in Threads :
        LET f == frame[t] IN
        /\ Done(t) /\ f.fun = "pow" /\ f.args = <<3, 2>>
        /\ chooser = "my_choose_cache" /\ f.selected = "my_cache"
        /\ <<StableName("pow"), DictKey(f.key)>> \in DOMAIN f.before["global_cache"]
        /\ f.bodyRuns = 1 /\ f.writes = {"my_cache"}
        /\ ramcache["global_cache"] = f.before["global_cache"]

\* C7: a call for which the chooser answers None runs the body, returns its
\* result, and reads and writes no store; every store is as it was.
C7_NoStoreAlwaysExecutes ==
    \A t \in Threads :
        LET f == frame[t] IN
        (/\ Done(t) /\ f.chooserCalls = 1
         /\ CallChooser(chooser, StableName(f.fun), iramcache) = NoStore)
            => /\ f.bodyRuns = 1
               /\ f.outcome = Body(f.fun, f.args)
               /\ f.reads = {} /\ f.writes = {}
               /\ ramcache = f.before

C7_Witness ==
    \E t \in Threads :
        LET f == frame[t] IN
        /\ Done(t) /\ f.fun = "pow" /\ f.args = <<3, 2>> /\ f.chooserCalls = 1
        /\ chooser = "choose_cache" /\ iramcache = NoStore
        /\ <<StableName("pow"), DictKey(f.key)>> \in DOMAIN ramcache["global_cache"]
        /\ f.bodyRuns = 1 /\ f.outcome = Return(PyInt(9))

\* C8: every entry of a store is held under the stable name of the function
\* that wrote it, and a call answered from a store is answered with an entry
\* that a call of the same function wrote.
C8_NamespacesNeverCollide ==
    /\ \A s \in Stores : \A x \in DOMAIN ramcache[s] :
          \E g \in Funs : x[1] = StableName(g) /\ writer[s][x] = PyObject(g)
    /\ \A t \in Threads :
          LET f == frame[t] IN
          (/\ Done(t) /\ f.selected \in Stores
           /\ f.bodyRuns = 0 /\ f.outcome.kind = "return")
              => f.hitWriter = PyObject(f.fun)

C8_Witness ==
    \E t \in Threads :
        LET f == frame[t] IN
        /\ Done(t) /\ f.fun = "add" /\ f.args = <<3, 2>>
        /\ f.selected = "global_cache" /\ f.bodyRuns = 0
        /\ f.hitWriter = PyObject("add") /\ f.outcome = Return(PyInt(5))
        /\ <<StableName("pow"), DictKey(f.key)>> \in DOMAIN ramcache["global_cache"]
        /\ ramcache["global_cache"][<<StableName("pow"), DictKey(f.key)>>] = PyInt(9)

\* C9: a call whose key function raises ends with that error; the body is not
\* run, the chooser is not consulted, no store is read or written and every
\* store is as it was when the call began.
C9_KeyErrorPropagatesUncached ==
    \A t \in Threads :
        LET f == frame[t] IN
        (Done(t) /\ KeyOf(f).kind = "raise")
            => /\ f.outcome = KeyOf(f)
               /\ f.bodyRuns = 0 /\ f.chooserCalls = 0
               /\ f.reads = {} /\ f.writes = {}
               /\ ramcache = f.before

C9_Witness ==
    \E t \in Threads :
        LET f == frame[t] IN
        /\ Done(t) /\ f.fun = "pow" /\ f.args = <<3, 3>>
        /\ keyfn["pow"] = "raising_key"
        /\ f.outcome = Raise("TypeError") /\ f.chooserCalls = 0
        /\ <<StableName("pow"), DictKey(PyTuple(<<3, 2>>))>>
               \in DOMAIN ramcache["global_cache"]

\* C10: an error the engine raises in the write, or an error other than
\* KeyError it raises in the lookup, is the outcome of the call.
C10_EngineErrorPropagates ==
    \A t \in Threads :
        LET f == frame[t] IN
        Done(t) =>
            \A x \in f.engineErrors :
                (x[1] = "set" \/ x[2] # "KeyError") => f.outcome = Raise(x[2])

C10_Witness ==
    \E t \in Threads :
        LET f == frame[t] IN
        /\ Done(t) /\ f.fun = "pow" /\ f.args = <<3, 2>>
        /\ f.engineErrors = {<<"query", "IOError">>}
        /\ f.outcome = Raise("IOError") /\ f.bodyRuns = 0

\* C11: whatever chooser and IRAMCache utility are registered or unregistered, a
\* call whose key function answered a key and whose body does not raise returns
\* to its caller, and what it returns is the body's result for its arguments or
\* a value cached for its key; it never ends in an error.
C11_CallNeverFails ==
    \A t \in Threads :
        LET f == frame[t] IN
        (Done(t) /\ KeyOf(f).kind = "return" /\ Body(f.fun, f.args).kind = "return")
            => /\ f.outcome.kind = "return"
               /\ (f.bodyRuns = 0 => f.prior # EmptyMap)

\* C12: choose_cache answers the same store for every function name, and while
\* it is the registered chooser and global_cache the registered IRAMCache
\* utility (the default configuration), every call selects global_cache, writes
\* to no other store and leaves every other store as it was.
C12_DefaultChooserSharesOneStore ==
    /\ \A n \in Names, m \in Names :
          choose_cache(n, iramcache) = choose_cache(m, iramcache)
    /\ \A t \in Threads :
          LET f == frame[t] IN
          (f.selected # "unset" /\ chooser = "choose_cache"
                /\ iramcache = "global_cache")
              => /\ f.selected = "global_cache"
                 /\ f.writes \subseteq {"global_cache"}
                 /\ \A s \in Stores \ {"global_cache"} : ramcache[s] = f.before[s]

C12_Witness ==
    \E t \in Threads :
        LET f == frame[t] IN
        /\ Done(t) /\ f.fun = "add" /\ f.writes = {"global_cache"}
        /\ chooser = "choose_cache" /\ iramcache = "global_cache"
        /\ \E x \in DOMAIN ramcache["global_cache"] : x[1] = StableName("pow")
        /\ \E x \in DOMAIN ramcache["global_cache"] : x[1] = StableName("add")

\* C13: a call asks the chooser once, and when it writes its body's result it
\* writes to the one store it read in its lookup, also when the chooser
\* registered at the time of the write would route the function elsewhere.
C13_ReadStoreIsWrittenStore ==
    \A t \in Threads :
        LET f == frame[t] IN
        /\ f.chooserCalls <= 1
        /\ f.selected # "unset" => f.chooserCalls = 1
        /\ f.reads \subseteq {f.selected}
        /\ f.writes \subseteq f.reads
        /\ (Done(t) /\ f.selected \in Stores /\ f.bodyRuns = 1)
              => f.writes = {f.selected} /\ f.reads = {f.selected}

C13_Witness ==
    \E t \in Threads :
        LET f == frame[t] IN
        /\ Done(t) /\ f.fun = "pow" /\ f.rerouted
        /\ chooser = "my_choose_cache"
        /\ f.reads = {"global_cache"} /\ f.writes = {"global_cache"}

\* the entry a call's adapter addresses in its store: <<globalkey, dict(key=key)>>
SlotOf(f) == <<StableName(f.fun), DictKey(f.key)>>

\* C14: a call that finds an entry for its key in the store it selected returns
\* the value of that entry, does not run the body and writes nothing: every
\* store holds the entries it held when the call began.
C14_HitLeavesStoresUnchanged ==
    \A t \in Threads :
        LET f == frame[t] IN
        (Done(t) /\ f.selected \in Stores /\ SlotOf(f) \in DOMAIN f.before[f.selected])
            => /\ f.bodyRuns = 0
               /\ f.outcome = Return(f.before[f.selected][SlotOf(f)])
               /\ f.writes = {}
               /\ ramcache = f.before

C14_Witness ==
    \E t \in Threads :
        LET f == frame[t] IN
        /\ Done(t) /\ f.fun = "pow" /\ f.args = <<3, 2>>
        /\ f.selected = "global_cache"
        /\ SlotOf(f) \in DOMAIN f.before["global_cache"]
        /\ f.outcome = Return(PyInt(9)) /\ f.bodyRuns = 0
        /\ ramcache = f.before /\ ramcache["global_cache"] # EmptyMap

\* the entry the adapter of a call addresses in its engine
AdapterSlot(f) == <<f.cache.globalkey, DictKey(f.key)>>

\* the engine's data of the adapter of a call, as it was when the call was made
AdapterData(f) == f.before[f.cache.ramcache]

C16_SetItemOverwrites ==
    \A t \in Threads :
        LET f == frame[t]
            s == f.cache.ramcache
        IN  (Done(t) /\ f.fun = "__setitem__")
              => /\ RAMCacheAdapter_getitem(f.cache, f.key, ramcache[s], "")
                       = Return(f.cached_value)
                 /\ DOMAIN ramcache[s] = DOMAIN AdapterData(f) \cup {AdapterSlot(f)}
                 /\ \A x \in DOMAIN ramcache[s] \ {AdapterSlot(f)} :
                       ramcache[s][x] = AdapterData(f)[x]
                 /\ \A o \in Stores \ {s} : ramcache[o] = f.before[o]

C16_Witness ==
    \E t \in Threads :
        LET f == frame[t]
            s == f.cache.ramcache
        IN  /\ Done(t) /\ f.fun = "__setitem__" /\ f.cached_value = PyInt(FirstArg)
            /\ AdapterSlot(f) \in DOMAIN AdapterData(f)
            /\ AdapterData(f)[AdapterSlot(f)] = None
            /\ \E x \in DOMAIN ramcache[s] :
                  x[1] = f.cache.globalkey /\ x # AdapterSlot(f)
            /\ \E x \in DOMAIN ramcache[s] : x[1] # f.cache.globalkey

\* the body of fun returns `value` for arguments that its key function maps to `key`
BodyResultFor(fun, key, value) ==
    \E a \in Args :
        /\ KeyFnApply(keyfn[fun], fun, a) = Return(key)
        /\ Body(fun, a) = Return(value)

\* C17: every entry of every store lies in the namespace of a memoized function
\* and its value is what the body of that function returns for arguments with
\* the entry's key; and every value a call returns is what the body returns for
\* arguments with the call's key.
C17_EntriesAreBodyResults ==
    /\ \A s \in Stores : \A x \in DOMAIN ramcache[s] :
          \E fun \in Funs :
              /\ x[1] = StableName(fun)
              /\ BodyResultFor(fun, x[2].key, ramcache[s][x])
    /\ \A t \in Threads :
          LET f == frame[t] IN
          (Done(t) /\ f.outcome.kind = "return")
              => BodyResultFor(f.fun, f.key, f.outcome.value)

C17_Witness ==
    \E t \in Threads :
        LET f == frame[t] IN
        /\ Done(t) /\ f.fun = "pow" /\ f.args = <<3, 3>>
        /\ keyfn["pow"] = "first_key" /\ f.selected = "my_cache"
        /\ f.bodyRuns = 0 /\ f.outcome = Return(PyInt(9))
        /\ ramcache["my_cache"][SlotOf(f)] = PyInt(9)
        /\ ramcache["global_cache"] # EmptyMap

\* C18: a call whose body raises for its arguments, once it has selected a
\* store, finds no entry, runs the body once and ends with the body's error; it
\* writes nothing, every store holds what it held when the call began, and no
\* store holds an entry for the call's key, so the next such call does the same.
C18_RaisingBodyCachesNothing ==
    \A t \in Threads :
        LET f == frame[t] IN
        (Done(t) /\ f.selected # "unset" /\ Body(f.fun, f.args).kind = "raise")
            => /\ f.bodyRuns = 1
               /\ f.outcome = Body(f.fun, f.args)
               /\ f.writes = {}
               /\ ramcache = f.before
               /\ \A s \in Stores : SlotOf(f) \notin DOMAIN ramcache[s]

C18_Witness ==
    \E t \in Threads :
        LET f == frame[t] IN
        /\ Done(t) /\ f.fun = "pow" /\ f.args = RaisingArgs
        /\ f.afterOp = [op |-> "raised", store |-> "global_cache",
                        name |-> StableName("pow")]
        /\ f.selected = "global_cache" /\ f.bodyRuns = 1
        /\ f.outcome = Raise("ZeroDivisionError")
        /\ ramcache = f.before /\ ramcache["global_cache"] # EmptyMap

\* C19 as stated: no store holds an entry that a call wrote with a value its body
\* returned before an invalidate of the function's name on that store.
C19_Original ==
    \A s \in Stores : \A x \in DOMAIN ramcache[s] : <<s, x>> \notin stale

\* C19: when store.invalidate(name) has just returned, also while a call of the
\* function is between its body and its write, the store holds no entry under
\* that namespace and no entry that the function of that name wrote; an entry
\* with a value from before the invalidation is in a store only through a
\* write that the call in flight made after the invalidation.
C19_InvalidateRemovesWrittenEntries ==
    /\ lastOp.op = "invalidate" =>
          /\ \A x \in DOMAIN ramcache[lastOp.store] : x[1] # lastOp.name
          /\ \A x \in DOMAIN writer[lastOp.store] :
                StableName(writer[lastOp.store][x].id) # lastOp.name
          /\ \A x \in stale : ~(x[1] = lastOp.store /\ x[2][1] = lastOp.name)
    /\ \A x \in stale : x[2] \in DOMAIN ramcache[x[1]]

C19_Witness ==
    \E t \in Threads :
        LET f == frame[t] IN
        /\ f.pc = "setitem" /\ f.fun = "pow" /\ f.invalidated
        /\ f.selected = "global_cache"
        /\ lastOp = [op |-> "invalidate", store |-> "global_cache",
                     name |-> StableName("pow")]
        /\ <<"global_cache", StableName("pow")>> \in pendingInv

=============================================================================
